---- MODULE Spec2Model ----
(***************************************************************************)
(* Model of Ethycs/library_reading:                                        *)
(*   - basic_demo.py: transition table + fallback chain                    *)
(*     (recommend_next_books_for_user)                                     *)
(*   - experiment_harness.py: strategies, ExperimentManager (bids + sticky *)
(*     assignment), OutcomeLogger                                          *)
(*   - llm_agent.py / main(): the callers that read the assignment map     *)
(*     right after recommend returns                                       *)
(*                                                                         *)
(* The specifications share the variables:                                 *)
(*   Spec        sequential callers of ExperimentManager / OutcomeLogger   *)
(*   SpecThreads concurrent callers of ExperimentManager.recommend, one    *)
(*               step per shared-memory access                             *)
(*   SpecChain   the pure recommenders applied to bounded checkout logs    *)
(*   SpecBuild   build_transition_model applied to bounded checkout logs   *)
(*   SpecStrategies  the three strategies applied to the demo log          *)
(***************************************************************************)
EXTENDS Integers, Sequences, FiniteSets, TLC

VARIABLES
    checkouts,                \* the checkout log: sequence of events
    transitions,              \* the transition table built from the log
    result,                   \* SpecChain: the last pure call and what it returned
    strategies,               \* ExperimentManager.strategies
    n_books_per_assignment,   \* ExperimentManager.n_books_per_assignment
    probs,                    \* ExperimentManager.probs
    heap,                     \* the assignment dicts, by object identity
    assignments,              \* ExperimentManager._assignments: student -> dict
    logs,                     \* ExperimentManager.logs
    events,                   \* OutcomeLogger.events
    uuids,                    \* number of uuid4() tokens handed out so far
    last,                     \* Spec: the last call made by the caller and what it saw
    threads                   \* SpecThreads: each caller's position and locals

vars == <<checkouts, transitions, result, strategies, n_books_per_assignment, probs, heap,
          assignments, logs, events, uuids, last, threads>>

chainVars == <<checkouts, transitions, result>>
mgrVars == <<strategies, n_books_per_assignment, probs, heap, assignments,
             logs, events, uuids>>

----------------------------------------------------------------------------
(* Bounds of the model *)

MaxEvents == 2        \* free events of a drawn checkout log
MaxTime == 2          \* timestamps of free events are 1..MaxTime
MaxK == 2             \* k of a pure call is 1..MaxK
MaxN == 2             \* n_books_per_assignment is drawn up to MaxN
MaxCalls == 3         \* calls (recommend, log_borrow) of the sequential caller
MaxOverrideK == 1     \* k passed as an override to ExperimentManager.recommend
MaxThreadCalls == 3   \* recommend calls started by the concurrent callers
MaxBuildEvents == 4   \* events of a log handed to build_transition_model alone

----------------------------------------------------------------------------
(* Python values *)

None == "None"

\* SpecChain has not applied a recommender yet
NoResult == [fn |-> None, user_id |-> None, k |-> 0, recs |-> <<>>,
             rows |-> <<>>, strategy |-> None]

\* Python compares str lexicographically: "b1" < "b10" < "b2" < ...
BookOrder == <<"b1", "b10", "b2", "b3", "b4", "b5", "b6", "b7", "b8", "b9">>
UserOrder == <<"", "u1", "u2", "u3", "u4", "u9">>

Rank(order) == [x \in {order[i] : i \in 1..Len(order)} |->
                   CHOOSE i \in 1..Len(order) : order[i] = x]
BookRank == Rank(BookOrder)
UserRank == Rank(UserOrder)
BookLess(a, b) == BookRank[a] < BookRank[b]
UserLess(a, b) == UserRank[a] < UserRank[b]

Min(a, b) == IF a <= b THEN a ELSE b

Range(s) == {s[i] : i \in 1..Len(s)}

\* s[:k] for k >= 0
Head_k(s, k) == SubSeq(s, 1, Min(k, Len(s)))

\* The last k elements, Series.tail(k)
Tail_k(s, k) == SubSeq(s, Len(s) - Min(k, Len(s)) + 1, Len(s))

\* A stable sort: x comes before y when Less(x, y), or when neither is less
\* and x was first.  pandas' sort_values and Python's sorted keep the input
\* order of ties at these sizes (numpy's quicksort is an insertion sort below
\* 16 elements, lexsort and sorted are stable).
StableSort(s, Less(_, _)) ==
    LET n == Len(s)
        pos == [i \in 1..n |-> Cardinality({j \in 1..n :
                     \/ Less(s[j], s[i])
                     \/ (~Less(s[i], s[j]) /\ j < i)}) + 1]
    IN  [r \in 1..n |-> s[CHOOSE i \in 1..n : pos[i] = r]]

\* The elements of a set in the order of a strict total order
SortSet(S, Less(_, _)) ==
    [r \in 1..Cardinality(S) |->
        CHOOSE x \in S : Cardinality({y \in S : Less(y, x)}) = r - 1]

RECURSIVE ConcatAll(_)
ConcatAll(ss) == IF ss = <<>> THEN <<>> ELSE Head(ss) \o ConcatAll(Tail(ss))

\* Exact fractions <<numerator, denominator>> stand for the float columns
RatAdd(p, q) == <<p[1] * q[2] + q[1] * p[2], p[2] * q[2]>>
RatLess(p, q) == p[1] * q[2] < q[1] * p[2]
RatEq(p, q) == p[1] * q[2] = q[1] * p[2]

RECURSIVE RatSum(_)
RatSum(ps) == IF ps = <<>> THEN <<0, 1>> ELSE RatAdd(Head(ps), RatSum(Tail(ps)))

----------------------------------------------------------------------------
(* Data of the two demos *)

Event(u, b, t) == [user_id |-> u, book_id |-> b, timestamp |-> t]

\* experiment_harness.load_catalog (titles left out: no code reads them
\* before the presentation layer)
load_catalog ==
    << [book_id |-> "b1", librarian_pick |-> TRUE],
       [book_id |-> "b2", librarian_pick |-> TRUE],
       [book_id |-> "b3", librarian_pick |-> FALSE],
       [book_id |-> "b4", librarian_pick |-> TRUE],
       [book_id |-> "b5", librarian_pick |-> FALSE],
       [book_id |-> "b6", librarian_pick |-> TRUE] >>

\* experiment_harness.load_checkout_history (timestamps as day of January)
load_checkout_history ==
    << Event("u1", "b1", 1), Event("u1", "b2", 5), Event("u1", "b3", 10),
       Event("u2", "b2", 2), Event("u2", "b4", 6), Event("u2", "b5", 11),
       Event("u3", "b1", 3), Event("u3", "b4", 7), Event("u3", "b2", 12),
       Event("u4", "b6", 4), Event("u4", "b2", 8) >>

\* basic_demo.load_librarian_recommendations
load_librarian_recommendations == <<"b6", "b7", "b8", "b9", "b10">>

----------------------------------------------------------------------------
(* Transition model *)

\* build_transition_model with shift(-1) over the whole frame instead of
\* within each user: the last book of a user pairs with the next user's first
build_transition_model_ungrouped(co) ==
    LET df == StableSort(co, LAMBDA a, b :
                  \/ UserLess(a.user_id, b.user_id)
                  \/ (a.user_id = b.user_id /\ a.timestamp < b.timestamp))
        rows == 1..(Len(df) - 1)
        pairs == {<<df[i].book_id, df[i + 1].book_id>> : i \in rows}
        count(p) == Cardinality({i \in rows :
                        df[i].book_id = p[1] /\ df[i + 1].book_id = p[2]})
        total(a) == Cardinality({i \in rows : df[i].book_id = a})
        keys == SortSet(pairs, LAMBDA p, q :
                    \/ BookLess(p[1], q[1])
                    \/ (p[1] = q[1] /\ BookLess(p[2], q[2])))
    IN  [r \in 1..Len(keys) |->
            [current_book |-> keys[r][1],
             next_book    |-> keys[r][2],
             count        |-> count(keys[r]),
             prob         |-> <<count(keys[r]), total(keys[r][1])>>]]

\* build_transition_model with the total taken over the whole table instead
\* of over the rows of the same current_book
build_transition_model_global_total(co) ==
    LET df == StableSort(co, LAMBDA a, b :
                  \/ UserLess(a.user_id, b.user_id)
                  \/ (a.user_id = b.user_id /\ a.timestamp < b.timestamp))
        rows == {i \in 1..(Len(df) - 1) : df[i + 1].user_id = df[i].user_id}
        pairs == {<<df[i].book_id, df[i + 1].book_id>> : i \in rows}
        count(p) == Cardinality({i \in rows :
                        df[i].book_id = p[1] /\ df[i + 1].book_id = p[2]})
        total(a) == Cardinality(rows)
        keys == SortSet(pairs, LAMBDA p, q :
                    \/ BookLess(p[1], q[1])
                    \/ (p[1] = q[1] /\ BookLess(p[2], q[2])))
    IN  [r \in 1..Len(keys) |->
            [current_book |-> keys[r][1],
             next_book    |-> keys[r][2],
             count        |-> count(keys[r]),
             prob         |-> <<count(keys[r]), total(keys[r][1])>>]]

\* build_transition_model: rows [current_book, next_book, count, prob],
\* ordered by (current_book, next_book) as groupby orders its keys
build_transition_model(co) ==
    LET df == StableSort(co, LAMBDA a, b :
                  \/ UserLess(a.user_id, b.user_id)
                  \/ (a.user_id = b.user_id /\ a.timestamp < b.timestamp))
        \* rows whose next_book (shift(-1) within the user) is not NaN
        rows == {i \in 1..(Len(df) - 1) : df[i + 1].user_id = df[i].user_id}
        pairs == {<<df[i].book_id, df[i + 1].book_id>> : i \in rows}
        count(p) == Cardinality({i \in rows :
                        df[i].book_id = p[1] /\ df[i + 1].book_id = p[2]})
        total(a) == Cardinality({i \in rows : df[i].book_id = a})
        keys == SortSet(pairs, LAMBDA p, q :
                    \/ BookLess(p[1], q[1])
                    \/ (p[1] = q[1] /\ BookLess(p[2], q[2])))
    IN  [r \in 1..Len(keys) |->
            [current_book |-> keys[r][1],
             next_book    |-> keys[r][2],
             count        |-> count(keys[r]),
             prob         |-> <<count(keys[r]), total(keys[r][1])>>]]

\* get_user_history
get_user_history(user_id, co) ==
    StableSort(SelectSeq(co, LAMBDA e : e.user_id = user_id),
               LAMBDA a, b : a.timestamp < b.timestamp)

BooksOf(hist) == {hist[i].book_id : i \in 1..Len(hist)}

----------------------------------------------------------------------------
(* experiment_harness.py: the three strategies.  A returned DataFrame is the *)
(* sequence of its rows [book_id, score].                                    *)

RecentBooks == 3      \* user_hist["book_id"].tail(3)
DefaultK == 3         \* default_kwargs k=3 of the registered strategies

BookIds(recs) == [i \in 1..Len(recs) |-> recs[i].book_id]

next_book_recs(student_id, co, trans, k) ==
    LET user_hist == get_user_history(student_id, co)
        recent_books ==
            Tail_k([i \in 1..Len(user_hist) |-> user_hist[i].book_id], RecentBooks)
        \* the transition rows in the order the two loops visit them
        visits == ConcatAll([i \in 1..Len(recent_books) |->
                     SelectSeq(trans,
                               LAMBDA r : r.current_book = recent_books[i])])
        first(b) == CHOOSE i \in 1..Len(visits) :
                        /\ visits[i].next_book = b
                        /\ \A j \in 1..(i - 1) : visits[j].next_book # b
        \* dict keys keep their insertion order
        keys == SortSet({visits[i].next_book : i \in 1..Len(visits)},
                        LAMBDA a, b : first(a) < first(b))
        score(b) == LET vs == SelectSeq(visits, LAMBDA r : r.next_book = b)
                    IN  RatSum([i \in 1..Len(vs) |-> vs[i].prob])
        already == BooksOf(user_hist)
        scores == SelectSeq([i \in 1..Len(keys) |->
                                [book_id |-> keys[i], score |-> score(keys[i])]],
                            LAMBDA x : x.book_id \notin already)
        ranked == Head_k(StableSort(scores,
                             LAMBDA a, b : RatLess(b.score, a.score)), k)
    IN  IF user_hist = <<>> THEN <<>>
        ELSE IF scores = <<>> THEN <<>>
        ELSE ranked

\* checkouts.groupby("book_id").size(): one row per book, by book_id
GroupSizes(co) ==
    LET ids == SortSet({co[i].book_id : i \in 1..Len(co)}, BookLess)
    IN  [r \in 1..Len(ids) |->
            [book_id |-> ids[r],
             score   |-> <<Cardinality({i \in 1..Len(co) :
                                           co[i].book_id = ids[r]}), 1>>]]

popularity_recs(student_id, co, k) ==
    LET user_hist == get_user_history(student_id, co)
        already == BooksOf(user_hist)
        pop == StableSort(GroupSizes(co),
                          LAMBDA a, b : RatLess(b.score, a.score))
    IN  IF co = <<>> THEN <<>>
        ELSE Head_k(SelectSeq(pop, LAMBDA x : x.book_id \notin already), k)

librarian_picks_recs(student_id, co, catalog, k) ==
    LET user_hist == get_user_history(student_id, co)
        already == BooksOf(user_hist)
        picks == SelectSeq(catalog, LAMBDA c :
                     c.librarian_pick /\ c.book_id \notin already)
        \* picks.merge(pop, how="left").fillna({"count": 0})
        merged == [i \in 1..Len(picks) |->
                      [book_id |-> picks[i].book_id,
                       score   |-> <<Cardinality({j \in 1..Len(co) :
                                        co[j].book_id = picks[i].book_id}), 1>>]]
    IN  IF picks = <<>> THEN <<>>
        ELSE Head_k(StableSort(merged,
                        LAMBDA a, b : RatLess(b.score, a.score)), k)

----------------------------------------------------------------------------
(* basic_demo.py: the fallback chain *)

\* get_all_books, as the set the list is built from
get_all_books(co) ==
    {co[i].book_id : i \in 1..Len(co)} \cup Range(load_librarian_recommendations)

recommend_popular_books_for_user(user_id, co, k) ==
    LET user_read_books == {co[i].book_id : i \in
                               {j \in 1..Len(co) : co[j].user_id = user_id}}
        popularity == StableSort(GroupSizes(co),
                                 LAMBDA a, b : RatLess(b.score, a.score))
        unread_popular == SelectSeq(popularity,
                                    LAMBDA x : x.book_id \notin user_read_books)
    IN  Head_k(BookIds(unread_popular), k)

\* lines 156-165: the next_book column of the top-k rows leaving last_book
transition_top(user_id, co, trans, k) ==
    LET user_hist == get_user_history(user_id, co)
        last_book == user_hist[Len(user_hist)].book_id
        candidates == SelectSeq(trans,
                                LAMBDA r : r.current_book = last_book)
        top == Head_k(StableSort(candidates,
                          LAMBDA a, b : RatLess(b.prob, a.prob)), k)
    IN  [i \in 1..Len(top) |-> top[i].next_book]

\* a curated list that is not filtered by what the user has read
unread_librarian_recs_unfiltered(user_id, co) == load_librarian_recommendations

\* lines 173-174
unread_librarian_recs(user_id, co) ==
    LET user_read_books == BooksOf(get_user_history(user_id, co))
    IN  SelectSeq(load_librarian_recommendations,
                  LAMBDA b : b \notin user_read_books)

\* lines 180-181, as a set: list(set(...)) has no defined order
unread_books(user_id, co) ==
    get_all_books(co) \ BooksOf(get_user_history(user_id, co))

\* random.shuffle(unread_books); unread_books[:k]: any arrangement
ShuffledHead(S, k) ==
    LET m == Min(k, Cardinality(S))
    IN  {s \in [1..m -> S] : \A i, j \in 1..m : i # j => s[i] # s[j]}

Outcome(recs, strategy) == [recs |-> recs, strategy |-> strategy]

\* recommend_next_books_for_user: the set of (recs, strategy_used) pairs the
\* call can return (one pair, except in the shuffled branch)
recommend_next_books_for_user(user_id, co, trans, k) ==
    LET user_hist == get_user_history(user_id, co)
        last_book == user_hist[Len(user_hist)].book_id
        candidates == SelectSeq(trans,
                                LAMBDA r : r.current_book = last_book)
        popular_recs == recommend_popular_books_for_user(user_id, co, k)
    IN  IF user_hist = <<>> THEN {Outcome(<<>>, "no_history")}
        ELSE IF candidates # <<>>
            THEN {Outcome(transition_top(user_id, co, trans, k), "transition")}
        ELSE IF popular_recs # <<>>
            THEN {Outcome(popular_recs, "popularity")}
        ELSE IF unread_librarian_recs(user_id, co) # <<>>
            THEN {Outcome(Head_k(unread_librarian_recs(user_id, co), k), "librarian")}
        ELSE IF unread_books(user_id, co) # {}
            THEN {Outcome(s, "random") : s \in ShuffledHead(unread_books(user_id, co), k)}
        ELSE {Outcome(<<>>, "all_read")}

----------------------------------------------------------------------------
(* experiment_harness.py: Strategy, ExperimentManager, OutcomeLogger *)

Strategy(name, bid, func) == [name |-> name, bid |-> bid, func |-> func]

\* the registry of main() and of llm_agent.demo(), with the bids given
Registry(b1, b2, b3) ==
    << Strategy("next_book", b1, "next_book_recs"),
       Strategy("popularity", b2, "popularity_recs"),
       Strategy("librarian_picks", b3, "librarian_picks_recs") >>

\* Strategy.recommend: default_kwargs (the demo data, k=3) overridden by the
\* caller's kwargs; override is {} or {k}
call_func(func, student_id, override) ==
    LET k == IF override = {} THEN DefaultK ELSE CHOOSE x \in override : TRUE
    IN  CASE func = "next_book_recs" ->
                next_book_recs(student_id, load_checkout_history,
                               build_transition_model(load_checkout_history), k)
          [] func = "popularity_recs" ->
                popularity_recs(student_id, load_checkout_history, k)
          [] func = "librarian_picks_recs" ->
                librarian_picks_recs(student_id, load_checkout_history,
                                     load_catalog, k)

\* u1 has a history in the demo log, u9 is unknown to it, "" is the empty id
ManagerUsers == {"", "u1", "u9"}
Overrides == {{}} \cup {{k} : k \in 1..MaxOverrideK}

\* the strategies are pure and their data is fixed at registration: what each
\* returns for each caller is computed once
recs_of == [func \in {"next_book_recs", "popularity_recs", "librarian_picks_recs"},
            student_id \in ManagerUsers, override \in Overrides |->
               call_func(func, student_id, override)]

Strategy_recommend(s, student_id, override) == recs_of[s.func, student_id, override]

RECURSIVE SumBids(_)
SumBids(bids) == IF bids = <<>> THEN 0 ELSE Head(bids) + SumBids(Tail(bids))

\* __init__ without the uniform fallback: bids / bids.sum() whatever the sum
init_probs_no_fallback(strats) ==
    LET bids == [i \in 1..Len(strats) |-> strats[i].bid]
    IN  [i \in 1..Len(bids) |-> <<bids[i], SumBids(bids)>>]

\* ExperimentManager.__init__, lines 218-221: self.probs as exact fractions
\* (an empty array stays empty: no division is carried out)
init_probs(strats) ==
    LET bids == [i \in 1..Len(strats) |-> strats[i].bid]
        used == IF SumBids(bids) <= 0 THEN [i \in 1..Len(bids) |-> 1] ELSE bids
    IN  [i \in 1..Len(used) |-> <<used[i], SumBids(used)>>]

\* np.random.choice(len(strategies), p=probs) raises ValueError on an empty
\* population and on a negative probability
choice_raises(strats, ps) ==
    \/ strats = <<>>
    \/ \E i \in 1..Len(ps) : ps[i][1] < 0

\* _choose_strategy: the indexes the weighted draw can return
choose_strategy(strats, ps) == {i \in 1..Len(strats) : ps[i][1] > 0}

\* a reuse test that is off by one: an exhausted assignment serves once more
reuses_assignment_off_by_one(student_id, asg, hp) ==
    /\ student_id \in DOMAIN asg
    /\ hp[asg[student_id]].remaining >= 0

\* _get_or_create_assignment, line 233: the stored assignment is reused
reuses_assignment(student_id, asg, hp) ==
    /\ student_id \in DOMAIN asg
    /\ hp[asg[student_id]].remaining > 0

\* str(uuid.uuid4()): a token never handed out before
uuid4(n) == ToString(n + 1)

\* an assignment whose id is derived from the strategy drawn, not a fresh token
new_assignment_named_by_strategy(strategy, n, assignment_id) ==
    [strategy_name |-> strategy.name,
     remaining     |-> n,
     assignment_id |-> strategy.name]

\* _get_or_create_assignment, lines 238-242
new_assignment(strategy, n, assignment_id) ==
    [strategy_name |-> strategy.name,
     remaining     |-> n,
     assignment_id |-> assignment_id]

\* a lookup that ignores the name and takes the first registered strategy
find_strategy_first(strats, strategy_name) == strats[1]

\* recommend, line 251: next(s for s in self.strategies if s.name == strategy_name)
find_strategy(strats, strategy_name) ==
    strats[CHOOSE i \in 1..Len(strats) :
              /\ strats[i].name = strategy_name
              /\ \A j \in 1..(i - 1) : strats[j].name # strategy_name]

\* recommend, line 255: assignment["remaining"] -= 1
decrement(hp, ref) == [hp EXCEPT ![ref].remaining = @ - 1]

\* recommend, lines 257-263 (the wall-clock timestamp is left out)
log_entry(student_id, strategy, assignment_id, recs) ==
    [student_id    |-> student_id,
     strategy_name |-> strategy.name,
     assignment_id |-> assignment_id,
     n_shown       |-> Len(recs)]

\* an append that skips the impressions that showed nothing
logs_append_shown(lg, entry) == IF entry.n_shown = 0 THEN lg ELSE Append(lg, entry)

\* recommend, line 264: self.logs.append(log_entry)
logs_append(lg, entry) == Append(lg, entry)

\* OutcomeLogger.log_borrow, lines 287-296
borrow_event(student_id, book_id, assignment_id, strategy_name) ==
    [student_id    |-> student_id,
     book_id       |-> book_id,
     assignment_id |-> assignment_id,
     strategy_name |-> strategy_name,
     event_type    |-> "borrow"]

----------------------------------------------------------------------------
(* Spec: one caller, every call runs to completion (main, LibraryAgent) *)

\* no registry, the registry of main, one with zero bids beside a positive
\* one, and two strategies that both bid zero
Registries == {<<>>, Registry(2, 1, 1), Registry(0, 1, 0),
               SubSeq(Registry(0, 0, 0), 1, 2)}

NoCall == [ncalls |-> 0, op |-> None, student_id |-> None,
           book_id |-> None, outcome |-> None, recs |-> <<>>,
           served_strategy |-> None, served_assignment_id |-> None,
           seen_strategy |-> None, seen_assignment_id |-> None]

Init ==
    /\ checkouts = load_checkout_history
    /\ transitions = build_transition_model(checkouts)
    /\ result = NoResult
    /\ strategies \in Registries
    /\ n_books_per_assignment \in 0..MaxN
    /\ probs = init_probs(strategies)
    /\ heap = <<>>
    /\ assignments = <<>>
    /\ logs = <<>>
    /\ events = <<>>
    /\ uuids = 0
    /\ last = NoCall
    /\ threads = <<>>

\* exp.recommend(student_id, **override) followed by the caller's read of
\* exp._assignments[student_id] (main lines 349-353, present_recommendations
\* lines 131-143)
RecommendReturns(student_id, override) ==
    /\ last.ncalls < MaxCalls
    /\ \/ reuses_assignment(student_id, assignments, heap)
       \/ ~choice_raises(strategies, probs)
    /\ \E idx \in IF reuses_assignment(student_id, assignments, heap)
                  THEN {0} ELSE choose_strategy(strategies, probs) :
        LET fresh == ~reuses_assignment(student_id, assignments, heap)
            ref == IF fresh THEN Len(heap) + 1 ELSE assignments[student_id]
            heap1 == IF fresh
                     THEN Append(heap, new_assignment(strategies[idx],
                                     n_books_per_assignment, uuid4(uuids)))
                     ELSE heap
            assignment == heap1[ref]
            strategy == find_strategy(strategies, assignment.strategy_name)
            recs == Strategy_recommend(strategy, student_id, override)
        IN  /\ heap' = decrement(heap1, ref)
            /\ assignments' = IF fresh THEN (student_id :> ref) @@ assignments
                              ELSE assignments
            /\ uuids' = IF fresh THEN uuids + 1 ELSE uuids
            /\ logs' = logs_append(logs, log_entry(student_id, strategy,
                                       assignment.assignment_id, recs))
            /\ last' = [last EXCEPT
                          !.ncalls = @ + 1,
                          !.op = "recommend",
                          !.student_id = student_id,
                          !.book_id = None,
                          !.outcome = "returned",
                          !.recs = BookIds(recs),
                          !.served_strategy = strategy.name,
                          !.served_assignment_id = assignment.assignment_id,
                          !.seen_strategy = heap'[assignments'[student_id]].strategy_name,
                          !.seen_assignment_id = heap'[assignments'[student_id]].assignment_id]
    /\ UNCHANGED <<chainVars, strategies, n_books_per_assignment, probs, events, threads>>

\* exp.recommend(student_id) when the draw of a new assignment raises: the
\* exception leaves _get_or_create_assignment before anything is stored
RecommendRaises(student_id, override) ==
    /\ last.ncalls < MaxCalls
    /\ ~reuses_assignment(student_id, assignments, heap)
    /\ choice_raises(strategies, probs)
    /\ last' = [last EXCEPT
                  !.ncalls = @ + 1,
                  !.op = "recommend",
                  !.student_id = student_id,
                  !.book_id = None,
                  !.outcome = "ValueError",
                  !.recs = <<>>,
                  !.served_strategy = None,
                  !.served_assignment_id = None,
                  !.seen_strategy = None,
                  !.seen_assignment_id = None]
    /\ UNCHANGED <<chainVars, mgrVars, threads>>

\* outcomes.log_borrow(student_id, book_id, assignment_id, strategy_name)
LogBorrow(student_id, book_id, assignment_id, strategy_name) ==
    /\ last.ncalls < MaxCalls
    /\ events' = Append(events, borrow_event(student_id, book_id,
                                             assignment_id, strategy_name))
    /\ last' = [last EXCEPT
                  !.ncalls = @ + 1,
                  !.op = "log_borrow",
                  !.student_id = student_id,
                  !.book_id = book_id,
                  !.outcome = "returned"]
    /\ UNCHANGED <<chainVars, strategies, n_books_per_assignment, probs, heap,
                   assignments, logs, uuids, threads>>

\* the students of the sequential caller: "" is served as any other student
\* the log does not know
SequentialUsers == {"", "u1"}

Next ==
    \/ \E u \in SequentialUsers, o \in Overrides : RecommendReturns(u, o)
    \/ \E u \in SequentialUsers, o \in Overrides : RecommendRaises(u, o)
    \/ \* main, lines 359-361: the student borrows the first recommended book
       /\ last.op = "recommend" /\ last.outcome = "returned" /\ last.recs # <<>>
       /\ \/ LogBorrow(last.student_id, last.recs[1],
                       last.seen_assignment_id, last.seen_strategy)
          \/ LogBorrow(last.student_id, last.recs[1], None, None)
          \/ LogBorrow(last.student_id, "",
                       last.seen_assignment_id, last.seen_strategy)
          \/ LogBorrow("", last.recs[1],
                       last.seen_assignment_id, last.seen_strategy)

Spec == Init /\ [][Next]_vars

----------------------------------------------------------------------------
(* SpecThreads: callers of ExperimentManager.recommend running concurrently. *)
(* The code takes no lock: a step is one access to the shared map, to a      *)
(* shared assignment dict or to the shared log, together with the local      *)
(* computation that follows it.                                              *)

Threads == {"t1", "t2"}
ThreadUsers == {"u1", "u9"}

IdleThread == [pc |-> "idle", student_id |-> None, ref |-> 0, tmp |-> 0,
               strategy_name |-> None, assignment_id |-> None, recs |-> <<>>,
               done |-> [u \in ThreadUsers |-> 0]]

RECURSIVE SumOver(_, _)
SumOver(S, f) == IF S = {} THEN 0
                 ELSE LET x == CHOOSE y \in S : TRUE
                      IN  f[x] + SumOver(S \ {x}, f)

\* calls started so far, by all threads
Started == SumOver(Threads, [t \in Threads |->
               SumOver(ThreadUsers, threads[t].done)
               + (IF threads[t].pc = "idle" THEN 0 ELSE 1)])

InitThreads ==
    /\ checkouts = load_checkout_history
    /\ transitions = build_transition_model(checkouts)
    /\ result = NoResult
    /\ strategies = Registry(2, 1, 1)
    /\ n_books_per_assignment \in 1..MaxN
    /\ probs = init_probs(strategies)
    /\ heap = <<>>
    /\ assignments = <<>>
    /\ logs = <<>>
    /\ events = <<>>
    /\ uuids = 0
    /\ last = NoCall
    /\ threads = [t \in Threads |-> IdleThread]

ThreadFrame == <<chainVars, strategies, n_books_per_assignment, probs, events, last>>

\* a thread enters recommend(student_id)
TCall(t, student_id) ==
    /\ threads[t].pc = "idle"
    /\ Started < MaxThreadCalls
    /\ threads' = [threads EXCEPT ![t].pc = "get", ![t].student_id = student_id]
    /\ UNCHANGED <<ThreadFrame, heap, assignments, logs, uuids>>

\* line 232: assignment = self._assignments.get(student_id); 0 stands for None
TGet(t) ==
    /\ threads[t].pc = "get"
    /\ threads' = [threads EXCEPT
                      ![t].pc = "test",
                      ![t].ref = IF threads[t].student_id \in DOMAIN assignments
                                 THEN assignments[threads[t].student_id] ELSE 0]
    /\ UNCHANGED <<ThreadFrame, heap, assignments, logs, uuids>>

\* line 233: if assignment and assignment["remaining"] > 0
TTest(t) ==
    LET u == threads[t].student_id
        got == IF threads[t].ref = 0 THEN <<>> ELSE (u :> threads[t].ref)
    IN  /\ threads[t].pc = "test"
        /\ threads' = [threads EXCEPT
                          ![t].pc = IF reuses_assignment(u, got, heap)
                                    THEN "load" ELSE "create"]
        /\ UNCHANGED <<ThreadFrame, heap, assignments, logs, uuids>>

\* lines 236-243: draw, build the dict, store it in the map
TCreate(t) ==
    /\ threads[t].pc = "create"
    /\ ~choice_raises(strategies, probs)
    /\ \E idx \in choose_strategy(strategies, probs) :
          /\ heap' = Append(heap, new_assignment(strategies[idx],
                                 n_books_per_assignment, uuid4(uuids)))
          /\ assignments' = (threads[t].student_id :> (Len(heap) + 1)) @@ assignments
          /\ uuids' = uuids + 1
          /\ threads' = [threads EXCEPT ![t].pc = "load", ![t].ref = Len(heap) + 1]
    /\ UNCHANGED <<ThreadFrame, logs>>

\* lines 248-255: the strategy serves, then assignment["remaining"] is read
TLoad(t) ==
    LET assignment == heap[threads[t].ref]
        strategy == find_strategy(strategies, assignment.strategy_name)
        recs == Strategy_recommend(strategy, threads[t].student_id, {})
    IN  /\ threads[t].pc = "load"
        /\ threads' = [threads EXCEPT
                          ![t].pc = "store",
                          ![t].strategy_name = strategy.name,
                          ![t].assignment_id = assignment.assignment_id,
                          ![t].recs = BookIds(recs),
                          ![t].tmp = assignment.remaining]
        /\ UNCHANGED <<ThreadFrame, heap, assignments, logs, uuids>>

\* line 255: the value read, less one, is written back
TStore(t) ==
    /\ threads[t].pc = "store"
    /\ heap' = [heap EXCEPT ![threads[t].ref].remaining = threads[t].tmp - 1]
    /\ threads' = [threads EXCEPT ![t].pc = "log"]
    /\ UNCHANGED <<ThreadFrame, assignments, logs, uuids>>

\* lines 257-266: the entry is appended (list.append is atomic) and the call
\* returns
TLog(t) ==
    LET u == threads[t].student_id
    IN  /\ threads[t].pc = "log"
        /\ logs' = logs_append(logs,
                      log_entry(u, [name |-> threads[t].strategy_name],
                                threads[t].assignment_id, threads[t].recs))
        /\ threads' = [threads EXCEPT
                          ![t] = [IdleThread EXCEPT
                                     !.done = [threads[t].done EXCEPT ![u] = @ + 1]]]
        /\ UNCHANGED <<ThreadFrame, heap, assignments, uuids>>

NextThreads ==
    \E t \in Threads :
        \/ \E u \in ThreadUsers : TCall(t, u)
        \/ TGet(t)
        \/ TTest(t)
        \/ TCreate(t)
        \/ TLoad(t)
        \/ TStore(t)
        \/ TLog(t)

SpecThreads == InitThreads /\ [][NextThreads]_vars

----------------------------------------------------------------------------
(* SpecChain: the pure recommenders applied to bounded checkout logs *)

ChainUsers == {"u1", "u2"}
FreeBooks == {"b1", "b2"}

FreeEvents == {Event(u, b, t) : u \in ChainUsers, b \in FreeBooks, t \in 1..MaxTime}

\* a reader who has borrowed every librarian recommendation on day 1
WholeShelf ==
    [i \in 1..Len(load_librarian_recommendations) |->
        Event("u1", load_librarian_recommendations[i], 1)]

\* the event source is deduplicated: no event occurs twice in a log
Deduplicated(s) == \A i, j \in 1..Len(s) : i # j => s[i] # s[j]

\* the checkout logs drawn: nothing or the whole-shelf reader, followed by up
\* to MaxEvents free events
CheckoutLogs ==
    {shelf \o free : shelf \in {<<>>, WholeShelf},
                     free \in {f \in UNION {[1..m -> FreeEvents] : m \in 0..MaxEvents} :
                                  Deduplicated(f)}}

ManagerUnused ==
    /\ strategies = <<>>
    /\ n_books_per_assignment = 0
    /\ probs = <<>>
    /\ heap = <<>>
    /\ assignments = <<>>
    /\ logs = <<>>
    /\ events = <<>>
    /\ uuids = 0
    /\ last = None
    /\ threads = <<>>

\* run_experiment, lines 198-199: the table is built once from the log
InitChain ==
    /\ checkouts \in CheckoutLogs
    /\ transitions = build_transition_model(checkouts)
    /\ result = NoResult
    /\ ManagerUnused

Returned(fn, user_id, k, rows, recs, strategy) ==
    /\ result' = [fn |-> fn, user_id |-> user_id, k |-> k, recs |-> recs,
                  rows |-> rows, strategy |-> strategy]
    /\ UNCHANGED <<checkouts, transitions, mgrVars, last, threads>>

CallNextBooksForUser(u, k) ==
    \E o \in recommend_next_books_for_user(u, checkouts, transitions, k) :
        Returned("recommend_next_books_for_user", u, k, <<>>, o.recs, o.strategy)

CallPopularBooksForUser(u, k) ==
    Returned("recommend_popular_books_for_user", u, k, <<>>,
             recommend_popular_books_for_user(u, checkouts, k), None)

CallNextBookRecs(u, k) ==
    LET rows == next_book_recs(u, checkouts, transitions, k)
    IN  Returned("next_book_recs", u, k, rows, BookIds(rows), None)

CallPopularityRecs(u, k) ==
    LET rows == popularity_recs(u, checkouts, k)
    IN  Returned("popularity_recs", u, k, rows, BookIds(rows), None)

CallLibrarianPicksRecs(u, k) ==
    LET rows == librarian_picks_recs(u, checkouts, load_catalog, k)
    IN  Returned("librarian_picks_recs", u, k, rows, BookIds(rows), None)

\* One call per drawn log: the recommenders are pure, what a call returns
\* does not depend on the calls before it.
NextChain ==
    /\ result = NoResult
    /\ \E u \in ChainUsers, k \in 1..MaxK :
          \/ CallNextBooksForUser(u, k)
          \/ CallPopularBooksForUser(u, k)
          \/ CallNextBookRecs(u, k)
          \/ CallPopularityRecs(u, k)
          \/ CallLibrarianPicksRecs(u, k)

SpecChain == InitChain /\ [][NextChain]_vars

----------------------------------------------------------------------------
(* SpecBuild: build_transition_model applied to bounded checkout logs of two *)
(* readers                                                                   *)

BuildEvents == {Event(u, b, t) : u \in ChainUsers, b \in FreeBooks, t \in 1..MaxTime}

\* the logs drawn: up to MaxBuildEvents events, append order free
BuildLogs ==
    {f \in UNION {[1..m -> BuildEvents] : m \in 0..MaxBuildEvents} : Deduplicated(f)}

\* load_checkout_history has run, build_transition_model has not
InitBuild ==
    /\ checkouts \in BuildLogs
    /\ transitions = <<>>
    /\ result = NoResult
    /\ ManagerUnused

\* transitions = build_transition_model(checkouts)
CallBuildTransitionModel ==
    /\ result = NoResult
    /\ transitions' = build_transition_model(checkouts)
    /\ result' = [NoResult EXCEPT !.fn = "build_transition_model"]
    /\ UNCHANGED <<checkouts, mgrVars, last, threads>>

NextBuild == CallBuildTransitionModel

SpecBuild == InitBuild /\ [][NextBuild]_vars

----------------------------------------------------------------------------
(* SpecStrategies: the three strategies of experiment_harness.py applied to *)
(* the demo log as it grows                                                  *)

DemoUsers == {"u1", "u2", "u3", "u4", "u9"}

\* the demo log after each of its rows
LogSnapshots ==
    {SubSeq(load_checkout_history, 1, m) : m \in 0..Len(load_checkout_history)}

\* main, lines 308-309
InitStrategies ==
    /\ checkouts \in LogSnapshots
    /\ transitions = build_transition_model(checkouts)
    /\ result = NoResult
    /\ ManagerUnused

\* one call of a strategy function per log
NextStrategies ==
    /\ result = NoResult
    /\ \E u \in DemoUsers, k \in 1..MaxK :
          \/ CallNextBookRecs(u, k)
          \/ CallPopularityRecs(u, k)
          \/ CallLibrarianPicksRecs(u, k)

SpecStrategies == InitStrategies /\ [][NextStrategies]_vars

----------------------------------------------------------------------------
(* Properties of the pure recommenders *)

History(u) == BooksOf(get_user_history(u, checkouts))

IsCall == result.fn # None

\* C3 as claimed: no strategy and no fallback chain returns an item of the
\* user's own history.
C3_NoConsumedItemReturned ==
    IsCall => \A i \in 1..Len(result.recs) : result.recs[i] \notin History(result.user_id)


IsChainCall == result.fn = "recommend_next_books_for_user"

\* What each strategy of the chain has to offer to user u, stated from the
\* log alone
LastBook(u) ==
    LET h == get_user_history(u, checkouts) IN h[Len(h)].book_id
TransitionOffers(u) ==
    /\ History(u) # {}
    /\ \E i \in 1..Len(transitions) : transitions[i].current_book = LastBook(u)
LoggedBooks == {checkouts[i].book_id : i \in 1..Len(checkouts)}
PopularityOffers(u) == LoggedBooks \ History(u) # {}
CuratedOffers(u) == {"b6", "b7", "b8", "b9", "b10"} \ History(u) # {}
RandomOffers(u) == (LoggedBooks \cup {"b6", "b7", "b8", "b9", "b10"}) \ History(u) # {}

\* C5 as claimed: the label is that of the first strategy, in the order
\* transition, popularity, curated, random, that has something to offer.
C5_FirstNonEmptyWins ==
    IsChainCall =>
        LET u == result.user_id
        IN  /\ TransitionOffers(u) => result.strategy = "transition"
            /\ ~TransitionOffers(u) /\ PopularityOffers(u)
                  => result.strategy = "popularity" /\ result.recs # <<>>
            /\ ~TransitionOffers(u) /\ ~PopularityOffers(u) /\ CuratedOffers(u)
                  => result.strategy = "librarian" /\ result.recs # <<>>
            /\ ~TransitionOffers(u) /\ ~PopularityOffers(u) /\ ~CuratedOffers(u)
                  /\ RandomOffers(u)
                  => result.strategy = "random" /\ result.recs # <<>>

\* C6 as claimed: a user without history gets a non-empty list from
\* popularity, curated or random whenever an eligible item exists.
C6_EmptyHistoryServed ==
    IsChainCall /\ History(result.user_id) = {} /\ RandomOffers(result.user_id)
        => /\ result.recs # <<>>
           /\ result.strategy \in {"popularity", "librarian", "random"}

AllStrategiesEmpty(u) ==
    /\ ~TransitionOffers(u)
    /\ ~PopularityOffers(u)
    /\ ~CuratedOffers(u)
    /\ ~RandomOffers(u)

IsStrategyCall ==
    result.fn \in {"next_book_recs", "popularity_recs", "librarian_picks_recs"}

\* C14 as claimed: a strategy returns at most k rows, a row of higher score
\* before a row of lower score, and rows of equal score by book_id ascending.
C14_RankedTiesByItemId ==
    IsStrategyCall =>
        /\ Len(result.rows) <= result.k
        /\ \A i, j \in 1..Len(result.rows) :
              i < j =>
                  \/ RatLess(result.rows[j].score, result.rows[i].score)
                  \/ /\ RatEq(result.rows[i].score, result.rows[j].score)
                     /\ BookLess(result.rows[i].book_id, result.rows[j].book_id)

----------------------------------------------------------------------------
(* Properties of build_transition_model (SpecBuild) *)

Built == result.fn = "build_transition_model"

\* the users of the log, and the books a log over these users can hold
LoggedUsers == {checkouts[i].user_id : i \in 1..Len(checkouts)}

\* event i comes before event j in a user's timestamp-ordered sequence
\* (events of equal timestamp stay in log order)
ComesBefore(i, j) ==
    \/ checkouts[i].timestamp < checkouts[j].timestamp
    \/ (checkouts[i].timestamp = checkouts[j].timestamp /\ i < j)

\* the pairs <<i, j>> of events of one user such that j immediately follows i
Adjacent ==
    LET idx == 1..Len(checkouts)
    IN  {p \in idx \X idx :
            /\ checkouts[p[1]].user_id = checkouts[p[2]].user_id
            /\ ComesBefore(p[1], p[2])
            /\ \A m \in idx :
                  checkouts[m].user_id = checkouts[p[1]].user_id
                      => ~(ComesBefore(p[1], m) /\ ComesBefore(m, p[2]))}

\* how often b immediately follows a in the timestamp-ordered sequence of u
Follows(u, a, b) ==
    LET h == get_user_history(u, checkouts)
    IN  Cardinality({i \in 1..(Len(h) - 1) : h[i].book_id = a /\ h[i + 1].book_id = b})

EdgeRows(a, b) == {r \in 1..Len(transitions) :
                      transitions[r].current_book = a /\ transitions[r].next_book = b}

\* C11: the table holds exactly one row (a, b) for every pair such that b
\* immediately follows a in some user's timestamp-ordered sequence, its count
\* is the number of such adjacencies summed over the users, and no other row;
\* so an empty log gives an empty table and a book that is always last in its
\* users' sequences has no outgoing row.
C11_CountsAdjacentPairs ==
    Built =>
        LET adj == Adjacent
            TimesFollows(a, b) ==
                Cardinality({p \in adj : checkouts[p[1]].book_id = a
                                         /\ checkouts[p[2]].book_id = b})
            AlwaysLast(a) == \A p \in adj : checkouts[p[1]].book_id # a
        IN  /\ \A r \in 1..Len(transitions) :
                  {transitions[r].current_book, transitions[r].next_book}
                      \subseteq LoggedBooks
            /\ \A a, b \in LoggedBooks :
                  LET n == TimesFollows(a, b)
                  IN  IF n = 0
                      THEN EdgeRows(a, b) = {}
                      ELSE /\ Cardinality(EdgeRows(a, b)) = 1
                           /\ \A r \in EdgeRows(a, b) : transitions[r].count = n
            /\ (checkouts = <<>> => transitions = <<>>)
            /\ \A a \in LoggedBooks :
                  AlwaysLast(a) =>
                      \A r \in 1..Len(transitions) : transitions[r].current_book # a

\* two readers borrow b1 then b2: one edge of count 2, and the adjacency of
\* u1's last book with u2's first is no edge
C11_Witness ==
    /\ Built
    /\ Follows("u1", "b1", "b2") = 1
    /\ Follows("u2", "b1", "b2") = 1
    /\ Len(get_user_history("u1", checkouts)) = 2
    /\ Len(get_user_history("u2", checkouts)) = 2
    /\ Len(transitions) = 1
    /\ transitions[1].count = 2
    /\ EdgeRows("b2", "b1") = {}

\* the rows leaving a, in table order
RowsFrom(a) == SelectSeq(transitions, LAMBDA r : r.current_book = a)

\* the sum of the counts of all edges with the same from_item
OutCount(a) ==
    LET out == RowsFrom(a)
    IN  SumOver(1..Len(out), [i \in 1..Len(out) |-> out[i].count])

OutProbs(a) ==
    LET out == RowsFrom(a)
    IN  [i \in 1..Len(out) |-> out[i].prob]

\* C12: every edge of the table has count >= 1 and prob = count / (sum of the
\* counts of the edges with the same current_book); the probabilities leaving
\* a current_book lie in (0, 1] and sum to 1.
C12_ProbabilitiesNormalised ==
    Built =>
        \A r \in 1..Len(transitions) :
            LET row == transitions[r]
                out == OutCount(row.current_book)
            IN  /\ row.count >= 1
                /\ row.prob[2] > 0
                /\ RatEq(row.prob, <<row.count, out>>)
                /\ RatLess(<<0, 1>>, row.prob)
                /\ ~RatLess(<<1, 1>>, row.prob)
                /\ RatEq(RatSum(OutProbs(row.current_book)), <<1, 1>>)

\* b1 is followed once by b1 and once by b2, b2 once by b1: probabilities
\* 1/2 and 1/2 leave b1, probability 1 leaves b2
C12_Witness ==
    /\ Built
    /\ Len(transitions) = 3
    /\ transitions[1].current_book = "b1" /\ transitions[1].next_book = "b1"
    /\ transitions[2].current_book = "b1" /\ transitions[2].next_book = "b2"
    /\ RatEq(transitions[1].prob, <<1, 2>>)
    /\ RatEq(transitions[2].prob, <<1, 2>>)
    /\ transitions[3].current_book = "b2"
    /\ RatEq(transitions[3].prob, <<1, 1>>)

----------------------------------------------------------------------------
(* Properties of the sequential ExperimentManager (Spec) *)

\* the impression log entries of one student, in log order
UserLog(u) == SelectSeq(logs, LAMBDA e : e.student_id = u)

\* C1: with n = n_books_per_assignment >= 1, the calls of one student fall
\* into consecutive blocks of exactly n calls; two calls of the student carry
\* the same assignment_id exactly when they are in the same block, and then
\* they were served by the same strategy: a new draw happens on the 1st,
\* (n+1)th, (2n+1)th ... call and on no other.
C1_StickyBlocks ==
    n_books_per_assignment >= 1 =>
        \A u \in ManagerUsers :
            LET L == UserLog(u)
                n == n_books_per_assignment
            IN  \A i, j \in 1..Len(L) :
                    /\ ((i - 1) \div n = (j - 1) \div n)
                          <=> (L[i].assignment_id = L[j].assignment_id)
                    /\ ((i - 1) \div n = (j - 1) \div n)
                          => (L[i].strategy_name = L[j].strategy_name)

C1_Witness ==
    /\ n_books_per_assignment = 2
    /\ \E u \in ManagerUsers :
          LET L == UserLog(u)
          IN  /\ Len(L) = 3
              /\ L[1].assignment_id = L[2].assignment_id
              /\ L[3].assignment_id # L[1].assignment_id
              /\ L[3].strategy_name # L[1].strategy_name

\* C8 as claimed: recommend is never called on a manager built with
\* n_books_per_assignment <= 0 or with an empty strategy list, because no
\* such manager exists.
C8_BadConfigurationRejected ==
    last.op = "recommend" =>
        /\ n_books_per_assignment >= 1
        /\ strategies # <<>>

\* C9 as claimed: a call with an empty student id, or a log_borrow with an
\* empty book id, leaves the assignment map, the impression log and the
\* outcome events as they were.
C9_MalformedIdRejected ==
    [][(/\ last'.ncalls # last.ncalls
        /\ \/ last'.student_id = ""
           \/ last'.op = "log_borrow" /\ last'.book_id = "")
       => /\ assignments' = assignments
          /\ heap' = heap
          /\ logs' = logs
          /\ events' = events]_vars

\* C10: after a recommend call has returned, the strategy_name and the
\* assignment_id the caller reads from the student's entry of the assignment
\* map are those of the strategy that produced the returned list and those
\* written into the call's impression log entry.
C10_CallerSeesServingAssignment ==
    last.op = "recommend" /\ last.outcome = "returned" =>
        /\ last.seen_strategy = last.served_strategy
        /\ last.seen_assignment_id = last.served_assignment_id
        /\ logs[Len(logs)].student_id = last.student_id
        /\ logs[Len(logs)].strategy_name = last.seen_strategy
        /\ logs[Len(logs)].assignment_id = last.seen_assignment_id

\* the call that used up the last slot of an assignment drawn for n >= 1
C10_Witness ==
    /\ last.op = "recommend" /\ last.outcome = "returned"
    /\ n_books_per_assignment >= 2
    /\ last.recs # <<>>
    /\ last.served_strategy # strategies[1].name
    /\ heap[assignments[last.student_id]].remaining = 0


\* the configured weights, in registry order
Bids == [i \in 1..Len(strategies) |-> strategies[i].bid]

\* C13: for a non-empty registry every probability is bid / (sum of the
\* bids), or 1 / len(strategies) when all bids are <= 0; the probabilities are
\* non-negative and sum to 1; and no assignment ever drawn names a strategy of
\* weight 0 while another strategy has a positive weight.
C13_DrawFollowsWeights ==
    strategies # <<>> =>
        LET bids == Bids
            sum == SumBids(bids)
            all_nonpositive == \A j \in 1..Len(bids) : bids[j] <= 0
            zero_weight == {strategies[i].name : i \in {j \in 1..Len(bids) : bids[j] = 0}}
        IN  /\ Len(probs) = Len(strategies)
            /\ \A i \in 1..Len(probs) :
                  /\ probs[i][2] > 0
                  /\ ~RatLess(probs[i], <<0, 1>>)
                  /\ IF all_nonpositive
                     THEN RatEq(probs[i], <<1, Len(strategies)>>)
                     ELSE RatEq(probs[i], <<bids[i], sum>>)
            /\ RatEq(RatSum(probs), <<1, 1>>)
            /\ \A h \in 1..Len(heap) :
                  heap[h].strategy_name \in zero_weight => all_nonpositive

\* weights 0, 1, 0: three assignments have been drawn, all of them name the
\* strategy of weight 1
C13_Witness ==
    /\ strategies = Registry(0, 1, 0)
    /\ RatEq(probs[1], <<0, 1>>) /\ RatEq(probs[2], <<1, 1>>)
    /\ Len(heap) = 3
    /\ \A h \in 1..Len(heap) : heap[h].strategy_name = "popularity"

\* the impression log entries that carry the assignment id
EntriesOf(assignment_id) == {i \in 1..Len(logs) : logs[i].assignment_id = assignment_id}

\* C15: between sequential calls, with n = n_books_per_assignment >= 1: the
\* impression entries sharing an assignment_id carry one user and one
\* strategy_name and are at most n; the assignments created so far carry
\* pairwise different ids, each started from remaining = n and has lost one
\* per entry logged under its id; a replaced assignment is used up, and the
\* assignment stored for a user has 0 <= remaining <= n - 1.
C15_AssignmentIdsIdentify ==
    n_books_per_assignment >= 1 =>
        LET n == n_books_per_assignment
            stored == {assignments[u] : u \in DOMAIN assignments}
        IN  /\ \A i, j \in 1..Len(logs) :
                  logs[i].assignment_id = logs[j].assignment_id
                      => /\ logs[i].student_id = logs[j].student_id
                         /\ logs[i].strategy_name = logs[j].strategy_name
            /\ \A i \in 1..Len(logs) : Cardinality(EntriesOf(logs[i].assignment_id)) <= n
            /\ \A g, h \in 1..Len(heap) :
                  g # h => heap[g].assignment_id # heap[h].assignment_id
            /\ \A h \in 1..Len(heap) :
                  LET entries == EntriesOf(heap[h].assignment_id)
                  IN  /\ heap[h].remaining = n - Cardinality(entries)
                      /\ \A i \in entries : logs[i].strategy_name = heap[h].strategy_name
                      /\ h \notin stored => heap[h].remaining = 0
            /\ \A h \in stored :
                  /\ heap[h].remaining >= 0
                  /\ heap[h].remaining <= n - 1

\* n = 2: a student's first assignment served two calls and was replaced, the
\* second has served one call and is stored with remaining = 1
C15_Witness ==
    /\ n_books_per_assignment = 2
    /\ Len(logs) = 3
    /\ logs[1].student_id = "u1" /\ logs[2].student_id = "u1" /\ logs[3].student_id = "u1"
    /\ logs[1].assignment_id = logs[2].assignment_id
    /\ logs[3].assignment_id # logs[1].assignment_id
    /\ Len(heap) = 2
    /\ heap[1].remaining = 0
    /\ assignments["u1"] = 2
    /\ heap[2].remaining = 1

----------------------------------------------------------------------------
(* Properties of the concurrent callers (SpecThreads) *)

Completed(u) == SumOver(Threads, [t \in Threads |-> threads[t].done[u]])

\* C2: every completed recommend call has appended exactly one impression
\* log entry, also when it showed nothing: the log holds one entry per
\* completed call of each student, and a step changes the log only by
\* appending one entry to it.
C2_OneEntryPerCall ==
    /\ [](\A u \in ThreadUsers : Len(UserLog(u)) = Completed(u))
    /\ [](Len(logs) = SumOver(ThreadUsers, [u \in ThreadUsers |-> Completed(u)]))
    /\ [][logs' # logs => Len(logs') = Len(logs) + 1
                          /\ SubSeq(logs', 1, Len(logs)) = logs]_vars

\* two callers of different students have completed, one was shown nothing
C2_Witness ==
    /\ \A t \in Threads : threads[t].pc = "idle"
    /\ \A u \in ThreadUsers : Completed(u) >= 1
    /\ \E i \in 1..Len(logs) : logs[i].n_shown = 0
    /\ \E i \in 1..Len(logs) : logs[i].n_shown > 0

\* C4 as claimed: under concurrent calls for one student no assignment
\* serves more than n_books_per_assignment calls and remaining never drops
\* below 0.
C4_NoOverServing ==
    \A ref \in 1..Len(heap) :
        /\ heap[ref].remaining >= 0
        /\ Cardinality({i \in 1..Len(logs) :
               logs[i].assignment_id = heap[ref].assignment_id})
              <= n_books_per_assignment

====
